---- MODULE Spec2Model ----
(***************************************************************************)
(* Model of src/widget/settings/item.rs (libcosmic): the settings-item     *)
(* row builders item/item_row, flex_item/flex_item_row, and the fluent     *)
(* builder Item with its terminal methods control/flex_control/toggler.    *)
(*                                                                         *)
(* Widget-tree nodes are records carrying the configuration the code sets. *)
(* Option<T> is a sequence of length 0 (None) or 1 (Some).  Each thread    *)
(* that calls the builders has a position pc, at most one live Item, the   *)
(* frame of a call of item_row/flex_item_row in progress and the value the *)
(* last call returned (slot, frame, out).  The global theme is guarded by *)
(* a mutex (holder, poisoned).  log is the history of the calls made on    *)
(* the thread's current builder.                                           *)
(***************************************************************************)
EXTENDS Integers, Sequences, FiniteSets, TLC

VARIABLES pc, slot, frame, out, log, holder, poisoned, theme

vars == <<pc, slot, frame, out, log, holder, poisoned, theme>>

\* ------------------------------------------------------------------ bounds

\* Setter calls made on one builder before its terminal call.
MaxSetters == 2

\* ------------------------------------------------------------------ inputs

UiThreads == {"ui"}
ConcThreads == {"ui", "bg"}
NoThread == "nobody"

Titles == {"t1", "t2"}
Descriptions == {"d1", "d2"}
Icons == {[kind |-> "icon", id |-> "i1"]}
Widgets == {[kind |-> "widget", id |-> "w1"], [kind |-> "widget", id |-> "w2"]}
Messages == {"m1"}
Themes == {[space_s |-> 16, space_xs |-> 12], [space_s |-> 24, space_xs |-> 8]}

\* What the threads of the concurrent specification pass.
ConcTitle == "t1"
ConcWidget == [kind |-> "widget", id |-> "w1"]

\* ------------------------------------------------------------------ Option

None == <<>>
Some(x) == <<x>>
IsSome(o) == o # <<>>
Get(o) == o[1]

\* ------------------------------------------------------- toolkit primitives

text(content) ==
    [kind |-> "text", content |-> content, wrapping |-> "Default",
     width |-> "Shrink", size |-> None]
wrapping(w, mode) == [w EXCEPT !.wrapping = mode]
width(w, len) == [w EXCEPT !.width = len]
size(w, px) == [w EXCEPT !.size = Some(px)]
spacing(w, px) == [w EXCEPT !.spacing = px]
padding(w, p) == [w EXCEPT !.padding = p]
align_y(w, a) == [w EXCEPT !.align_y = a]
min_item_width(w, px) == [w EXCEPT !.min_item_width = Some(px)]
justify_items(w, a) == [w EXCEPT !.justify_items = a]
justify_content(w, a) == [w EXCEPT !.justify_content = a]

horizontal_space == [kind |-> "space", width |-> "Fill", height |-> "Shrink"]
container(w) == [kind |-> "container", child |-> w]
toggler(is_checked) ==
    [kind |-> "toggler", is_checked |-> is_checked, on_toggle |-> None]
on_toggle(w, message) == [w EXCEPT !.on_toggle = Some(message)]

column_with_capacity ==
    [kind |-> "column", children |-> <<>>, spacing |-> 0, width |-> "Shrink"]
push(w, child) == [w EXCEPT !.children = Append(@, child)]

row_with_children(children) ==
    [kind |-> "row", children |-> children, spacing |-> 0,
     align_y |-> "Start", padding |-> <<0, 0>>]
flex_row(children) ==
    [kind |-> "flex_row", children |-> children, spacing |-> 0,
     padding |-> <<0, 0>>, min_item_width |-> None,
     justify_items |-> "Default", justify_content |-> "Default",
     width |-> "Shrink"]

\* ------------------------------------------------------- program constants

MinItemWidth == 200
ColumnSpacing == 2
DescriptionSize == 10

\* ------------------------------------------------------------ free builders

\* Mutant of item: the control is wrapped in a container, as flex_item does.
item_wrapping_control(title, widget) ==
    [fn |-> "item_row",
     children |-> << wrapping(text(title), "Word"),
                     width(horizontal_space, "Fill"),
                     container(widget) >>]

\* item: the children handed to item_row.
item(title, widget) ==
    [fn |-> "item_row",
     children |-> << wrapping(text(title), "Word"),
                     width(horizontal_space, "Fill"),
                     widget >>]

\* flex_item: the children handed to flex_item_row.
flex_item(title, widget) ==
    [fn |-> "flex_item_row",
     children |-> << width(wrapping(text(title), "Word"), "Fill"),
                     container(widget) >>]

\* item_row after the spacing has been read: the Row it returns.
item_row(children, sp) ==
    padding(align_y(spacing(row_with_children(children), sp.space_xs),
                    "Center"),
            <<0, sp.space_s>>)

\* Mutant of flex_item_row: the minimum item width follows the theme.
flex_item_row_themed_min_width(children, sp) ==
    width(justify_content(
              justify_items(
                  min_item_width(
                      spacing(padding(flex_row(children), <<0, sp.space_s>>),
                              sp.space_xs),
                      sp.space_s * 10),
                  "Center"),
              "SpaceBetween"),
          "Fill")

\* flex_item_row after the spacing has been read: the FlexRow it returns.
flex_item_row(children, sp) ==
    width(justify_content(
              justify_items(
                  min_item_width(
                      spacing(padding(flex_row(children), <<0, sp.space_s>>),
                              sp.space_xs),
                      MinItemWidth),
                  "Center"),
              "SpaceBetween"),
          "Fill")

\* ------------------------------------------------------------- Item builder

builder(title) == [title |-> title, description |-> None, icon |-> None]

\* Mutant of Item_title: the builder is made afresh from the new title.
Item_title_rebuilding(self, value) == builder(value)

\* The setters derive(Setters) generates; strip_option wraps the value in Some.
Item_title(self, value) == [self EXCEPT !.title = value]
Item_description(self, value) == [self EXCEPT !.description = Some(value)]
Item_icon(self, value) == [self EXCEPT !.icon = Some(value)]

\* Mutant of title_block: the description keeps the default text size.
title_block_default_size(self) ==
    IF IsSome(self.description)
    THEN width(push(push(spacing(column_with_capacity, ColumnSpacing),
                         wrapping(text(self.title), "Word")),
                    wrapping(text(Get(self.description)), "Word")),
               "Fill")
    ELSE width(text(self.title), "Fill")

\* The title block control_ pushes after the optional icon.
title_block(self) ==
    IF IsSome(self.description)
    THEN width(push(push(spacing(column_with_capacity, ColumnSpacing),
                         wrapping(text(self.title), "Word")),
                    size(wrapping(text(Get(self.description)), "Word"),
                         DescriptionSize)),
               "Fill")
    ELSE width(text(self.title), "Fill")

\* Mutant of control_: the control is pushed before the title block.
control_pushing_control_first(self, widget) ==
    LET c0 == <<>>
        c1 == IF IsSome(self.icon) THEN Append(c0, Get(self.icon)) ELSE c0
        c2 == Append(c1, widget)
    IN  Append(c2, title_block(self))

\* Mutant of control_: title and description are pushed as two row children.
control_pushing_description_apart(self, widget) ==
    LET c0 == <<>>
        c1 == IF IsSome(self.icon) THEN Append(c0, Get(self.icon)) ELSE c0
        c2 == Append(c1, wrapping(text(self.title), "Word"))
        c3 == IF IsSome(self.description)
              THEN Append(c2, size(wrapping(text(Get(self.description)),
                                            "Word"), DescriptionSize))
              ELSE c2
    IN  Append(c3, widget)

control_(self, widget) ==
    LET c0 == <<>>
        c1 == IF IsSome(self.icon) THEN Append(c0, Get(self.icon)) ELSE c0
        c2 == Append(c1, title_block(self))
    IN  Append(c2, widget)

Item_control(self, widget) ==
    [fn |-> "item_row", children |-> control_(self, widget)]

\* Mutant of Item_flex_control: the control is wrapped in a container, as
\* flex_item does.
Item_flex_control_wrapping(self, widget) ==
    [fn |-> "flex_item_row", children |-> control_(self, container(widget))]

Item_flex_control(self, widget) ==
    [fn |-> "flex_item_row", children |-> control_(self, widget)]

Item_toggler(self, is_checked, message) ==
    Item_control(self, on_toggle(toggler(is_checked), message))

\* Mutant of moved: the terminal method borrows the builder.
borrowed(self) == Some(self)

\* A terminal method takes self by value: the caller's builder is moved out.
moved(self) == None

\* ------------------------------------------------------------ state machine

Threads == DOMAIN pc

NoArgs == [self |-> None, title |-> None, widget |-> None]

\* The frame of a call of item_row / flex_item_row: the function, the children
\* it was given, and (history) the public entry point, its arguments, the
\* number of lock acquisitions so far and the spacing read from the theme.
Frame(call, via, args) ==
    [fn |-> call.fn, children |-> call.children, via |-> via, args |-> args,
     acq |-> 0, sp |-> None]

InitFor(T) ==
    /\ pc = [t \in T |-> "idle"]
    /\ slot = [t \in T |-> None]
    /\ frame = [t \in T |-> None]
    /\ out = [t \in T |-> None]
    /\ log = [t \in T |-> <<>>]
    /\ holder = NoThread
    /\ poisoned = FALSE
    /\ theme \in Themes

Init == InitFor(UiThreads)

\* Entry into item_row / flex_item_row from a public function.
Enter(t, call, via, args) ==
    /\ pc' = [pc EXCEPT ![t] = "lock"]
    /\ frame' = [frame EXCEPT ![t] = Some(Frame(call, via, args))]
    /\ out' = [out EXCEPT ![t] = None]
    /\ UNCHANGED <<holder, poisoned, theme>>

\* A call of a free function leaves the thread's builder alone.  The history
\* of a builder that is already consumed ends here.
Direct(t) ==
    /\ slot' = slot
    /\ log' = IF IsSome(slot[t]) THEN log ELSE [log EXCEPT ![t] = <<>>]

call_item(t, ti, w) ==
    /\ pc[t] = "idle"
    /\ Enter(t, item(ti, w), "item",
             [NoArgs EXCEPT !.title = Some(ti), !.widget = Some(w)])
    /\ Direct(t)

call_flex_item(t, ti, w) ==
    /\ pc[t] = "idle"
    /\ Enter(t, flex_item(ti, w), "flex_item",
             [NoArgs EXCEPT !.title = Some(ti), !.widget = Some(w)])
    /\ Direct(t)

call_item_row(t, ch) ==
    /\ pc[t] = "idle"
    /\ Enter(t, [fn |-> "item_row", children |-> ch], "item_row", NoArgs)
    /\ Direct(t)

call_flex_item_row(t, ch) ==
    /\ pc[t] = "idle"
    /\ Enter(t, [fn |-> "flex_item_row", children |-> ch],
             "flex_item_row", NoArgs)
    /\ Direct(t)

call_builder(t, ti) ==
    /\ pc[t] = "idle"
    /\ slot' = [slot EXCEPT ![t] = Some(builder(ti))]
    /\ log' = [log EXCEPT ![t] = << [op |-> "builder", arg |-> ti] >>]
    /\ out' = [out EXCEPT ![t] = None]
    /\ UNCHANGED <<pc, frame, holder, poisoned, theme>>

\* Setter calls logged on the current builder.
NSetters(t) == Len(log[t]) - 1

Setter(t, op, arg, new) ==
    /\ pc[t] = "idle"
    /\ IsSome(slot[t])
    /\ NSetters(t) < MaxSetters
    /\ slot' = [slot EXCEPT ![t] = Some(new)]
    /\ log' = [log EXCEPT ![t] = Append(@, [op |-> op, arg |-> arg])]
    /\ UNCHANGED <<pc, frame, out, holder, poisoned, theme>>

call_title(t, v) == Setter(t, "title", v, Item_title(Get(slot[t]), v))

call_description(t, v) ==
    Setter(t, "description", v, Item_description(Get(slot[t]), v))

call_icon(t, v) == Setter(t, "icon", v, Item_icon(Get(slot[t]), v))

Terminal(t, op, w, call) ==
    /\ pc[t] = "idle"
    /\ IsSome(slot[t])
    /\ Enter(t, call, op,
             [NoArgs EXCEPT !.self = slot[t], !.widget = Some(w)])
    /\ slot' = [slot EXCEPT ![t] = moved(Get(slot[t]))]
    /\ log' = [log EXCEPT ![t] = Append(@, [op |-> op, arg |-> w])]

call_control(t, w) ==
    Terminal(t, "control", w, Item_control(Get(slot[t]), w))

call_flex_control(t, w) ==
    Terminal(t, "flex_control", w, Item_flex_control(Get(slot[t]), w))

call_toggler(t, b, m) ==
    Terminal(t, "toggler", on_toggle(toggler(b), m),
             Item_toggler(Get(slot[t]), b, m))

\* Mutant of unwrap: a poisoned lock is used all the same.
unwrap_ignoring_poison(isPoisoned) == "held"

\* theme::THEME.lock().unwrap(): where the thread goes once lock() returned.
\* A poisoned mutex makes lock() return Err, and unwrap() panics.
unwrap(isPoisoned) == IF isPoisoned THEN "panicked" ELSE "held"

\* THEME.lock().unwrap() of item_row / flex_item_row.  lock() blocks until no
\* thread holds the mutex.  When unwrap() panics, the guard inside the error
\* is dropped by the unwinding, so the mutex is free again.
theme_lock(t) ==
    /\ pc[t] = "lock"
    /\ holder = NoThread
    /\ LET next == unwrap(poisoned) IN
          /\ pc' = [pc EXCEPT ![t] = next]
          /\ holder' = IF next = "held" THEN t ELSE NoThread
    /\ frame' = [frame EXCEPT ![t] = Some([Get(@) EXCEPT !.acq = @ + 1])]
    /\ UNCHANGED <<slot, out, log, poisoned, theme>>

\* Mutant of guard_after_let: the guard is bound to a local and lives until the
\* function returns.
guard_kept_to_return(t) == t

\* The holder of the mutex after the let statement: the guard is a temporary
\* of the initialiser and is dropped at the end of the statement.
guard_after_let(t) == NoThread

\* .cosmic().spacing: space_s and space_xs are copied out of the theme.
read_spacing(t) ==
    /\ pc[t] = "held"
    /\ frame' = [frame EXCEPT ![t] =
                    Some([Get(@) EXCEPT !.sp =
                             Some([space_s |-> theme.space_s,
                                   space_xs |-> theme.space_xs])])]
    /\ holder' = guard_after_let(t)
    /\ pc' = [pc EXCEPT ![t] = "build"]
    /\ UNCHANGED <<slot, out, log, poisoned, theme>>

\* The rest of item_row / flex_item_row: build the container and return it.
\* Returning drops every local of the function, a live guard included.
Return(t, fn, w) ==
    /\ pc[t] = "build"
    /\ Get(frame[t]).fn = fn
    /\ out' = [out EXCEPT ![t] =
                  Some([via |-> Get(frame[t]).via, args |-> Get(frame[t]).args,
                        acq |-> Get(frame[t]).acq, sp |-> Get(frame[t]).sp,
                        row |-> w])]
    /\ frame' = [frame EXCEPT ![t] = None]
    /\ pc' = [pc EXCEPT ![t] = "idle"]
    /\ holder' = IF holder = t THEN NoThread ELSE holder
    /\ UNCHANGED <<slot, log, poisoned, theme>>

item_row_return(t) ==
    Return(t, "item_row",
           item_row(Get(frame[t]).children, Get(Get(frame[t]).sp)))

flex_item_row_return(t) ==
    Return(t, "flex_item_row",
           flex_item_row(Get(frame[t]).children, Get(Get(frame[t]).sp)))

\* Other code of the process panics while it holds the theme mutex.
poison_theme ==
    /\ holder = NoThread
    /\ ~poisoned
    /\ poisoned' = TRUE
    /\ UNCHANGED <<pc, slot, frame, out, log, holder, theme>>

\* Other code of the process replaces the theme under the mutex.
set_theme ==
    /\ holder = NoThread
    /\ \E th \in Themes : th # theme /\ theme' = th
    /\ UNCHANGED <<pc, slot, frame, out, log, holder, poisoned>>

\* Child vectors a caller hands to item_row / flex_item_row directly.
ChildLists ==
    {<<>>} \cup {<<w>> : w \in Widgets}
           \cup {<<text(ti), w>> : ti \in {"t1"}, w \in Widgets}

Next ==
    \/ \E t \in Threads, ti \in Titles, w \in Widgets : call_item(t, ti, w)
    \/ \E t \in Threads, ti \in Titles, w \in Widgets : call_flex_item(t, ti, w)
    \/ \E t \in Threads, ch \in ChildLists : call_item_row(t, ch)
    \/ \E t \in Threads, ch \in ChildLists : call_flex_item_row(t, ch)
    \/ \E t \in Threads, ti \in Titles : call_builder(t, ti)
    \/ \E t \in Threads, v \in Titles : call_title(t, v)
    \/ \E t \in Threads, v \in Descriptions : call_description(t, v)
    \/ \E t \in Threads, v \in Icons : call_icon(t, v)
    \/ \E t \in Threads, w \in Widgets : call_control(t, w)
    \/ \E t \in Threads, w \in Widgets : call_flex_control(t, w)
    \/ \E t \in Threads, b \in BOOLEAN, m \in Messages : call_toggler(t, b, m)
    \/ \E t \in Threads : theme_lock(t)
    \/ \E t \in Threads : read_spacing(t)
    \/ \E t \in Threads : item_row_return(t)
    \/ \E t \in Threads : flex_item_row_return(t)
    \/ poison_theme
    \/ set_theme

Spec == Init /\ [][Next]_vars

\* Several threads calling the builders.  The setters touch only the calling
\* thread's own builder, so the threads here go from builder() straight to a
\* terminal method.
ConcInit == InitFor(ConcThreads)

ConcNext ==
    \/ \E t \in Threads : call_item(t, ConcTitle, ConcWidget)
    \/ \E t \in Threads : call_flex_item(t, ConcTitle, ConcWidget)
    \/ \E t \in Threads : call_item_row(t, <<ConcWidget>>)
    \/ \E t \in Threads : call_flex_item_row(t, <<ConcWidget>>)
    \/ \E t \in Threads : call_builder(t, ConcTitle)
    \/ \E t \in Threads : call_control(t, ConcWidget)
    \/ \E t \in Threads : call_flex_control(t, ConcWidget)
    \/ \E t \in Threads : call_toggler(t, TRUE, "m1")
    \/ \E t \in Threads : theme_lock(t)
    \/ \E t \in Threads : read_spacing(t)
    \/ \E t \in Threads : item_row_return(t)
    \/ \E t \in Threads : flex_item_row_return(t)
    \/ poison_theme
    \/ set_theme

\* A running thread keeps running (weak fairness of the steps that never
\* block), and a thread blocked in lock() gets the mutex if it is free again
\* and again (strong fairness of the acquisition).
ConcFairness ==
    \A t \in ConcThreads :
        /\ WF_vars(read_spacing(t))
        /\ WF_vars(item_row_return(t))
        /\ WF_vars(flex_item_row_return(t))
        /\ SF_vars(theme_lock(t))

ConcSpec == ConcInit /\ [][ConcNext]_vars /\ ConcFairness

\* ------------------------------------------------------------------- claims

\* The state of the lock as each thread sees it: held only between lock() and
\* the end of the let statement, acquired once per call.
LockDiscipline ==
    \A t \in Threads :
        /\ holder = t => pc[t] = "held"
        /\ pc[t] = "lock" => Get(frame[t]).acq = 0 /\ holder # t
        /\ pc[t] = "held" => Get(frame[t]).acq = 1 /\ holder = t
        /\ pc[t] = "build" =>
              /\ Get(frame[t]).acq = 1
              /\ IsSome(Get(frame[t]).sp)
              /\ holder # t
        /\ pc[t] = "panicked" => Get(frame[t]).acq = 1 /\ holder # t
        /\ pc[t] = "idle" => holder # t /\ frame[t] = None
        /\ IsSome(out[t]) => Get(out[t]).acq = 1 /\ pc[t] = "idle"

\* The spacing is read by the thread that holds the lock, and at no other time.
SpacingReadUnderLock ==
    \A t \in Threads :
        (IsSome(frame[t]) /\ IsSome(frame'[t])
            /\ Get(frame[t]).sp # Get(frame'[t]).sp)
        => /\ holder = t
           /\ Get(frame[t]).sp = None
           /\ Get(frame'[t]).sp = Some(theme)

Terminals == {"control", "flex_control", "toggler"}
SetterOps == {"title", "description", "icon"}

\* The rows the terminal methods of Item have returned.
BuiltRows == {Get(out[t]) : t \in {u \in Threads : IsSome(out[u])}}
ItemRows == {o \in BuiltRows : o.via \in Terminals}

\* The builder a row of ItemRows was made from, and the control it was given.
SelfOf(o) == Get(o.args.self)
ControlOf(o) == Get(o.args.widget)

\* C1: the children of a row made by control, flex_control or toggler are, in
\* this order, the icon if and only if one was set, one title block, and the
\* control as the last child: 2 children without an icon, 3 with one, and the
\* control nowhere but last.
C1_IconTitleBlockControl ==
    \A o \in ItemRows :
        LET ch == o.row.children
            n == Len(ch)
            hasIcon == IsSome(SelfOf(o).icon)
        IN  /\ n = IF hasIcon THEN 3 ELSE 2
            /\ hasIcon => ch[1] = Get(SelfOf(o).icon)
            /\ ch[n - 1].kind \in {"text", "column"}
            /\ ch[n] = ControlOf(o)
            /\ \A i \in 1..(n - 1) : ch[i] # ControlOf(o)
            /\ Cardinality({i \in 1..n : ch[i].kind \in {"text", "column"}}) = 1
            /\ Cardinality({i \in 1..n : ch[i].kind = "icon"})
                  = IF hasIcon THEN 1 ELSE 0

\* A row with an icon and a description and a row with neither were built.
C1_Witness ==
    \E o \in ItemRows :
        /\ IsSome(SelfOf(o).icon)
        /\ IsSome(SelfOf(o).description)
        /\ o.via = "toggler"
        /\ Len(o.row.children) = 3

\* C2: the row item(title, widget) returns has exactly three children: the
\* title text, one horizontal spacer of width Fill, and the control itself,
\* not wrapped.
C2_ItemTitleSpacerControl ==
    \A o \in BuiltRows :
        o.via = "item" =>
            LET ch == o.row.children IN
            /\ o.row.kind = "row"
            /\ Len(ch) = 3
            /\ ch[1].kind = "text"
            /\ ch[1].content = Get(o.args.title)
            /\ ch[1].wrapping = "Word"
            /\ ch[2].kind = "space"
            /\ ch[2].width = "Fill"
            /\ ch[3] = Get(o.args.widget)

C2_Witness ==
    \E o \in BuiltRows :
        /\ o.via = "item"
        /\ Get(o.args.title) = "t2"
        /\ Len(o.row.children) = 3

\* C3 as stated: with a description, the title+description stack is one
\* node and stands in the control's place, the last child of the row.
C3_StackInControlPlace ==
    \A o \in ItemRows :
        IsSome(SelfOf(o).description) =>
            LET ch == o.row.children IN
            /\ Cardinality({i \in 1..Len(ch) : ch[i].kind = "column"}) = 1
            /\ ch[Len(ch)].kind = "column"

\* C3 amended: with a description, the title and the description are one
\* node, a stack holding the title then the description, and no separate row
\* children; the stack stands in the title's place, right before the control,
\* which stays the last child.
C3_StackInTitlePlace ==
    \A o \in ItemRows :
        IsSome(SelfOf(o).description) =>
            LET ch == o.row.children
                n == Len(ch)
            IN  /\ {i \in 1..n : ch[i].kind = "column"} = {n - 1}
                /\ {i \in 1..n : ch[i].kind = "text"} = {}
                /\ Len(ch[n - 1].children) = 2
                /\ ch[n - 1].children[1].kind = "text"
                /\ ch[n - 1].children[1].content = SelfOf(o).title
                /\ ch[n - 1].children[2].kind = "text"
                /\ ch[n - 1].children[2].content = Get(SelfOf(o).description)
                /\ ch[n] = ControlOf(o)

C3_Witness ==
    \E o \in ItemRows :
        /\ SelfOf(o).description = Some("d2")
        /\ o.via = "control"
        /\ o.row.children[Len(o.row.children) - 1].kind = "column"

\* C4: every flex-row of this file (flex_item, flex_item_row, flex_control) has
\* a minimum item width of 200 and space-between justification whatever the
\* inputs and the theme; the spacing and the horizontal padding are the
\* theme's.
C4_FlexRowMinWidth ==
    \A o \in BuiltRows :
        /\ o.via \in {"flex_item", "flex_item_row", "flex_control"}
              <=> o.row.kind = "flex_row"
        /\ o.row.kind = "flex_row" =>
              /\ o.row.min_item_width = Some(200)
              /\ o.row.justify_content = "SpaceBetween"
              /\ Get(o.sp) \in Themes
              /\ o.row.spacing = Get(o.sp).space_xs
              /\ o.row.padding = <<0, Get(o.sp).space_s>>

\* A flex-row built from a builder with icon and description, under the
\* theme with the wider padding.
C4_Witness ==
    \E o \in ItemRows :
        /\ o.via = "flex_control"
        /\ IsSome(SelfOf(o).icon)
        /\ IsSome(SelfOf(o).description)
        /\ o.row.padding = <<0, 24>>
        /\ o.row.min_item_width = Some(200)

\* C5: the calls of a builder's lifetime are one builder(title), then setter
\* calls, then at most one terminal call, which is the last: the builder
\* exists exactly until its terminal call, and yields at most one row.
C5_BuilderLifetime ==
    \A t \in Threads :
        LET l == log[t] IN
        /\ l = <<>> => slot[t] = None
        /\ l # <<>> =>
              /\ l[1].op = "builder"
              /\ \A i \in 2..Len(l) :
                    \/ l[i].op \in SetterOps
                    \/ l[i].op \in Terminals /\ i = Len(l)
              /\ IsSome(slot[t]) <=> l[Len(l)].op \notin Terminals
              /\ Cardinality({i \in 1..Len(l) : l[i].op \in Terminals}) <= 1
        /\ (IsSome(out[t]) /\ Get(out[t]).via \in Terminals) =>
              /\ slot[t] = None
              /\ l # <<>> /\ l[Len(l)].op = Get(out[t]).via

\* A builder configured by two setters was consumed and its row returned.
C5_Witness ==
    \E t \in Threads :
        /\ IsSome(out[t])
        /\ Get(out[t]).via = "flex_control"
        /\ Len(log[t]) = 4
        /\ slot[t] = None

\* C6: for the same builder and control, control and flex_control assemble
\* the same children in the same order; only the container differs.
C6_SameChildrenRowAndFlexRow ==
    \A o \in ItemRows :
        /\ o.via = "control" =>
              /\ o.row.kind = "row"
              /\ o.row.children =
                    flex_item_row(
                        Item_flex_control(SelfOf(o), ControlOf(o)).children,
                        Get(o.sp)).children
        /\ o.via = "flex_control" =>
              /\ o.row.kind = "flex_row"
              /\ o.row.children =
                    item_row(Item_control(SelfOf(o), ControlOf(o)).children,
                             Get(o.sp)).children

C6_Witness ==
    \E o \in ItemRows :
        /\ o.via = "control"
        /\ IsSome(SelfOf(o).icon)
        /\ SelfOf(o).description = Some("d1")
        /\ Len(o.row.children) = 3

\* What holds of every state as to failure: a thread has failed only inside
\* item_row / flex_item_row, on a poisoned lock, before any spacing was read
\* and with no row returned; what a call returns is a row or a flex-row; and
\* inside item_row / flex_item_row a thread past lock() can always go on.
FailureOnlyOnPoison ==
    \A t \in Threads :
        /\ pc[t] = "panicked" =>
              /\ poisoned
              /\ out[t] = None
              /\ IsSome(frame[t])
              /\ Get(frame[t]).fn \in {"item_row", "flex_item_row"}
              /\ Get(frame[t]).sp = None
              /\ holder # t
        /\ IsSome(out[t]) => Get(out[t]).row.kind \in {"row", "flex_row"}
        /\ pc[t] \in {"held", "build"} =>
              ENABLED (read_spacing(t) \/ item_row_return(t)
                          \/ flex_item_row_return(t))
        /\ (pc[t] = "lock" /\ holder = NoThread) => ENABLED theme_lock(t)

\* What holds of every step: lock() on a poisoned lock fails and on a sound
\* one succeeds; nothing else fails; builder(), the setters and the terminal
\* methods up to the call of item_row / flex_item_row leave the lock alone.
FailureStep ==
    \A t \in Threads :
        /\ (pc[t] = "lock" /\ pc'[t] # "lock") =>
              (poisoned <=> pc'[t] = "panicked")
        /\ (pc[t] # "panicked" /\ pc'[t] = "panicked") => pc[t] = "lock"
        /\ (slot'[t] # slot[t] \/ log'[t] # log[t]) =>
              /\ holder' = holder
              /\ poisoned' = poisoned
              /\ pc'[t] \in {"idle", "lock"}
              /\ pc[t] = "idle"

\* C8: no operation returns an error value and each completes with a widget
\* unless the theme lock is poisoned; on a poisoned lock item_row and
\* flex_item_row (and their callers) fail abruptly and return no row, while
\* builder(), the setters and control_ never touch the lock and cannot fail.
C8_FailsOnlyOnPoisonedLock == []FailureOnlyOnPoison /\ [][FailureStep]_vars

\* toggler() on a configured builder failed on the poisoned lock.
C8_Witness ==
    \E t \in Threads :
        /\ pc[t] = "panicked"
        /\ Get(frame[t]).via = "toggler"
        /\ Len(log[t]) = 3
        /\ poisoned

\* C9: the title block depends only on the description: with one, a vertical
\* stack of exactly title then description, spacing 2, description at size
\* 10, width Fill; without, the title text alone, width Fill.  The icon does
\* not change it.
C9_TitleBlock ==
    \A o \in ItemRows :
        LET ch == o.row.children
            block == ch[Len(ch) - 1]
            self == SelfOf(o)
        IN  /\ block.width = "Fill"
            /\ IsSome(self.description) =>
                  /\ block.kind = "column"
                  /\ block.spacing = 2
                  /\ Len(block.children) = 2
                  /\ block.children[1].kind = "text"
                  /\ block.children[1].content = self.title
                  /\ block.children[2].kind = "text"
                  /\ block.children[2].content = Get(self.description)
                  /\ block.children[2].size = Some(10)
            /\ self.description = None =>
                  /\ block.kind = "text"
                  /\ block.content = self.title
            /\ block = title_block([self EXCEPT !.icon = None])
            /\ \A i \in Icons : block = title_block([self EXCEPT !.icon = Some(i)])

\* A row with a description and an icon, whose block is the stack.
C9_Witness ==
    \E o \in ItemRows :
        /\ IsSome(SelfOf(o).icon)
        /\ SelfOf(o).description = Some("d2")
        /\ o.row.children[2].kind = "column"
        /\ o.row.children[2].children[2].size = Some(10)

\* The positions of the log where setter op was called.
CallsOf(l, op) == {i \in 2..Len(l) : l[i].op = op}
Max(S) == CHOOSE x \in S : \A y \in S : y <= x
LastArg(l, op) == l[Max(CallsOf(l, op))].arg

\* The fields a builder with history l must have.
FieldsAgree(self, l) ==
    /\ self.title = IF CallsOf(l, "title") = {} THEN l[1].arg
                    ELSE LastArg(l, "title")
    /\ self.description = IF CallsOf(l, "description") = {} THEN None
                          ELSE Some(LastArg(l, "description"))
    /\ self.icon = IF CallsOf(l, "icon") = {} THEN None
                   ELSE Some(LastArg(l, "icon"))

\* Fields and history agree for a live builder, and the row a terminal method
\* returned shows the fields of the history before the terminal call.
FieldsFollowSetters ==
    \A t \in Threads :
        /\ IsSome(slot[t]) => FieldsAgree(Get(slot[t]), log[t])
        /\ (IsSome(out[t]) /\ Get(out[t]).via \in Terminals) =>
              LET o == Get(out[t])
                  l == SubSeq(log[t], 1, Len(log[t]) - 1)
                  ch == o.row.children
                  block == ch[Len(ch) - 1]
              IN  /\ FieldsAgree(SelfOf(o), l)
                  /\ IF CallsOf(l, "icon") = {} THEN Len(ch) = 2
                     ELSE Len(ch) = 3 /\ ch[1] = LastArg(l, "icon")
                  /\ IF CallsOf(l, "description") = {}
                     THEN /\ block.kind = "text"
                          /\ block.content = SelfOf(o).title
                     ELSE /\ block.kind = "column"
                          /\ block.children[1].content = SelfOf(o).title
                          /\ block.children[2].content
                                = LastArg(l, "description")

\* A setter call changes its own field only, and a field once set stays set.
SetterFrame ==
    \A t \in Threads :
        (IsSome(slot[t]) /\ IsSome(slot'[t]) /\ Len(log'[t]) = Len(log[t]) + 1)
        => LET a == Get(slot[t])
               b == Get(slot'[t])
               op == log'[t][Len(log'[t])].op
           IN  /\ op # "title" => b.title = a.title
               /\ op # "description" => b.description = a.description
               /\ op # "icon" => b.icon = a.icon
               /\ IsSome(a.description) => IsSome(b.description)
               /\ IsSome(a.icon) => IsSome(b.icon)

\* C10: builder(title) has no description and no icon; after any setter calls
\* each field holds the value of the last setter called for it, or its
\* initial value; a setter leaves the other two fields alone; a description
\* or icon once set is never absent again; and the row of the terminal method
\* shows these final values.
C10_FieldsAreLastSetterValues ==
    []FieldsFollowSetters /\ [][SetterFrame]_vars

\* The title was set twice after the description: the row shows the last
\* title and the description.
C10_Witness ==
    \E t \in Threads :
        /\ IsSome(out[t])
        /\ Get(out[t]).via = "control"
        /\ Len(log[t]) = 4
        /\ log[t][1].arg = "t1"
        /\ log[t][2].op = "description"
        /\ log[t][3].op = "title"
        /\ log[t][3].arg = "t2"
        /\ Get(out[t]).row.children[1].children[1].content = "t2"

====
